---- MODULE Spec2Model ----
(***************************************************************************)
(* The fact-check job pipeline of newsfax (src/api/api.py): the SQLite     *)
(* table fact_checks, the POST /factcheck handler, and the background task *)
(* process_fact_checking with its two stages.                              *)
(*                                                                         *)
(* Scheduling model: the application runs on one asyncio event loop.  A    *)
(* coroutine keeps the loop until it reaches an await that suspends; the   *)
(* variable running names the request whose handler holds the loop         *)
(* between two steps of the model (0 when the loop is free).               *)
(***************************************************************************)
EXTENDS Integers, Sequences, FiniteSets, TLC

\* ------------------------------------------------------------------ bounds
\* Number of POST /factcheck requests in one behaviour.
MaxSubmits == 3

\* Facts collected before the stage functions are called directly.
MaxFacts == 2

\* The URLs clients submit.
Keys == {"https://a", "https://b"}

\* --------------------------------------------------------------- data model
\* Python None, and SQL NULL as sqlite3 returns it.
None == [none |-> TRUE]

Source(url, favicon) == [cls |-> "Source", url |-> url, favicon |-> favicon]

CheckedFact(text, truthfulness, summary, sources) ==
  [cls |-> "CheckedFact", text |-> text, truthfulness |-> truthfulness,
   summary |-> summary, sources |-> sources]

FactCheckResult(text, truthfulness, summary, sources) ==
  [cls |-> "FactCheckResult", text |-> text, truthfulness |-> truthfulness,
   summary |-> summary, sources |-> sources]

\* Outcome of a call: it returns a value or raises an Exception.
Return(v) == [raised |-> FALSE, value |-> v]

Raise == [raised |-> TRUE]

\* json.dumps of the list of dicts save_fact_check_results builds: the JSON
\* text is represented by the array it denotes.
json_dumps(dicts) == [json |-> dicts]

json_loads(text) == text.json

Take(s, n) == SubSeq(s, 1, IF Len(s) < n THEN Len(s) ELSE n)

\* ------------------------------------------------------------ the job store
\* fact_checks is the set of rows of the table; url is its PRIMARY KEY.
Row(url, checked_fact_json, processed) ==
  [url |-> url, checked_fact_json |-> checked_fact_json, processed |-> processed]

RowsOf(table, url) == {row \in table : row.url = url}

\* Variant: the second component is "a run is pending", false once a result
\* is stored.
get_fact_check_status_is_pending(table, url) ==
  IF RowsOf(table, url) = {}
  THEN <<None, FALSE>>
  ELSE LET result == CHOOSE row \in RowsOf(table, url) : TRUE
       IN  <<result.checked_fact_json,
             result.processed # 0 /\ result.checked_fact_json = None>>

\* SELECT checked_fact_json, processed ... WHERE url = ?; fetchone()
get_fact_check_status(table, url) ==
  IF RowsOf(table, url) = {}
  THEN <<None, FALSE>>
  ELSE LET result == CHOOSE row \in RowsOf(table, url) : TRUE
       IN  <<result.checked_fact_json, result.processed # 0>>

\* Variant: the processing flag is not bound, the column keeps its DEFAULT 0.
set_processing_status_default(table, url, processing) ==
  (table \ RowsOf(table, url)) \cup {Row(url, None, 0)}

\* Variant: the INSERT OR REPLACE is not committed.
set_processing_status_uncommitted(table, url, processing) == table

\* Variant: INSERT OR IGNORE, an existing row is kept.
set_processing_status_ignore(table, url, processing) ==
  IF RowsOf(table, url) = {}
  THEN table \cup {Row(url, None, IF processing THEN 1 ELSE 0)}
  ELSE table

\* Variant: a plain INSERT into a table without the PRIMARY KEY.
set_processing_status_insert(table, url, processing) ==
  table \cup {Row(url, None, IF processing THEN 1 ELSE 0)}

\* INSERT OR REPLACE INTO fact_checks VALUES (?, NULL, ?)
set_processing_status(table, url, processing) ==
  (table \ RowsOf(table, url)) \cup {Row(url, None, IF processing THEN 1 ELSE 0)}

\* Variant: the sources of a fact are not serialised.
FactDict_without_sources(fact) ==
  [text |-> fact.text, truthfulness |-> fact.truthfulness,
   summary |-> fact.summary, sources |-> <<>>]

SourceDict(s) == [url |-> s.url, favicon |-> s.favicon]

FactDict(fact) ==
  [text |-> fact.text, truthfulness |-> fact.truthfulness,
   summary |-> fact.summary,
   sources |-> [i \in 1..Len(fact.sources) |-> SourceDict(fact.sources[i])]]

\* Variant: the UPDATE is never committed.
save_fact_check_results_uncommitted(table, url, facts) == table

\* Variant: the facts are serialised last first.
save_fact_check_results_reversed(table, url, facts) ==
  LET facts_json ==
        json_dumps([i \in 1..Len(facts) |-> FactDict(facts[Len(facts) + 1 - i])])
  IN  {IF row.url = url
       THEN [row EXCEPT !.checked_fact_json = facts_json, !.processed = 1]
       ELSE row : row \in table}

\* Variant: the UPDATE sets processed = FALSE.
save_fact_check_results_not_processed(table, url, facts) ==
  LET facts_json == json_dumps([i \in 1..Len(facts) |-> FactDict(facts[i])])
  IN  {IF row.url = url
       THEN [row EXCEPT !.checked_fact_json = facts_json, !.processed = 0]
       ELSE row : row \in table}

\* Variant: the UPDATE has no WHERE clause.
save_fact_check_results_all_rows(table, url, facts) ==
  LET facts_json == json_dumps([i \in 1..Len(facts) |-> FactDict(facts[i])])
  IN  {[row EXCEPT !.checked_fact_json = facts_json, !.processed = 1] : row \in table}

\* Variant: INSERT OR REPLACE of the result, a missing row is created.
save_fact_check_results_upsert(table, url, facts) ==
  LET facts_json == json_dumps([i \in 1..Len(facts) |-> FactDict(facts[i])])
  IN  (table \ RowsOf(table, url)) \cup {Row(url, facts_json, 1)}

\* UPDATE fact_checks SET checked_fact_json = ?, processed = TRUE WHERE url = ?
save_fact_check_results(table, url, facts) ==
  LET facts_json == json_dumps([i \in 1..Len(facts) |-> FactDict(facts[i])])
  IN  {IF row.url = url
       THEN [row EXCEPT !.checked_fact_json = facts_json, !.processed = 1]
       ELSE row : row \in table}

\* What a call of save_fact_check_results gives its caller: the UPDATE, the
\* commit and the close run whether or not a row matched, and the function
\* returns None.
save_fact_check_results_returns(table, url, facts) == Return(None)

\* The three logical states of a key.
IsAbsent(table, url) == get_fact_check_status(table, url) = <<None, FALSE>>

IsPending(table, url) == get_fact_check_status(table, url) = <<None, TRUE>>

IsDone(table, url) ==
  /\ get_fact_check_status(table, url)[1] # None
  /\ get_fact_check_status(table, url)[2]

\* ------------------------------------------------------------ the two stages
_get_mock_facts ==
  <<
    CheckedFact("climate change", "TRUE",
      "Climate change is a well-established scientific fact supported by overwhelming evidence from multiple independent research institutions worldwide.",
      <<
        Source("https://www.nasa.gov/climate", "https://www.nasa.gov/favicon.ico"),
        Source("https://www.noaa.gov/climate", "https://www.noaa.gov/favicon.ico"),
        Source("https://www.ipcc.ch/", "https://www.ipcc.ch/favicon.ico")
      >>),
    CheckedFact("artificial intelligence", "SOMEWHAT TRUE",
      "While AI technology is rapidly advancing, claims about its capabilities are often exaggerated or lack proper context about current limitations.",
      <<
        Source("https://www.nature.com/", "https://www.nature.com/favicon.ico"),
        Source("https://www.sciencemag.org/", "https://www.sciencemag.org/favicon.ico"),
        Source("https://www.technologyreview.com/", "https://www.technologyreview.com/favicon.ico")
      >>),
    CheckedFact("vaccines cause autism", "FALSE",
      "This claim has been thoroughly debunked by numerous large-scale studies. No credible scientific evidence supports any link between vaccines and autism.",
      <<
        Source("https://www.cdc.gov/", "https://www.cdc.gov/favicon.ico"),
        Source("https://www.who.int/", "https://www.who.int/favicon.ico"),
        Source("https://www.nejm.org/", "https://www.nejm.org/favicon.ico")
      >>),
    CheckedFact("renewable energy", "TRUE",
      "Renewable energy technologies are proven, cost-effective, and increasingly competitive with fossil fuels according to industry data.",
      <<
        Source("https://www.iea.org/", "https://www.iea.org/favicon.ico"),
        Source("https://www.irena.org/", "https://www.irena.org/favicon.ico"),
        Source("https://www.energy.gov/", "https://www.energy.gov/favicon.ico")
      >>),
    CheckedFact("unemployment rate", "SOMEWHAT TRUE",
      "Unemployment statistics are generally accurate but may not capture underemployment or discouraged workers, requiring careful interpretation.",
      <<
        Source("https://www.bls.gov/", "https://www.bls.gov/favicon.ico"),
        Source("https://www.federalreserve.gov/", "https://www.federalreserve.gov/favicon.ico")
      >>),
    CheckedFact("inflation", "SOMEWHAT TRUE",
      "Inflation data is generally reliable but interpretation depends on methodology and time frame. Different measures may show varying trends.",
      <<
        Source("https://www.federalreserve.gov/", "https://www.federalreserve.gov/favicon.ico"),
        Source("https://www.bls.gov/", "https://www.bls.gov/favicon.ico")
      >>),
    CheckedFact("social media", "SOMEWHAT TRUE",
      "Claims about social media impacts are often mixed - some effects are well-documented while others are still being researched.",
      <<
        Source("https://www.pewresearch.org/", "https://www.pewresearch.org/favicon.ico"),
        Source("https://www.apa.org/", "https://www.apa.org/favicon.ico")
      >>),
    CheckedFact("electric vehicles", "TRUE",
      "Electric vehicles are a proven technology with clear environmental benefits and rapidly improving performance metrics.",
      <<
        Source("https://www.epa.gov/", "https://www.epa.gov/favicon.ico"),
        Source("https://www.energy.gov/", "https://www.energy.gov/favicon.ico"),
        Source("https://www.iea.org/", "https://www.iea.org/favicon.ico")
      >>)
  >>

\* What fact_checker.extract_content_from_url_async(url) can do: return a text
\* made from Tavily's response, or raise (Tavily fails, or AsyncFactChecker()
\* finds no API keys).
extract_content_from_url_async(url) ==
  {Return([kind |-> "extracted", url |-> url]),
   Raise}

\* api.extract_content_from_url, given what the extractor did.
extract_content_from_url(url, enabled, extractor) ==
  IF enabled
  THEN IF extractor.raised
       THEN Return([kind |-> "mock content (error)", url |-> url])
       ELSE Return(extractor.value)
  ELSE Return([kind |-> "mock content", url |-> url])

\* Lists the agent can have collected when the analysis ends.
AgentFact1 ==
  FactCheckResult("X", "TRUE", "...",
    <<[url |-> "https://source.com", favicon |-> "https://source.com/favicon.ico"]>>)

AgentFact2 ==
  FactCheckResult("Y", "FALSE", "Error during fact verification",
    <<[url |-> "https://www.google.com/search?q=Y",
       favicon |-> "https://www.google.com/favicon.ico"]>>)

\* What fact_checker.analyze_facts_with_ai_async(content) can do: return the
\* collected facts ([] also when the agent fails), or raise (AsyncFactChecker()
\* finds no API keys).
analyze_facts_with_ai_async(content) ==
  {Return(<<>>), Return(<<AgentFact1>>), Return(<<AgentFact2, AgentFact1>>), Raise}

SourceOfDict(source) == Source(source.url, source.favicon)

CheckedFactOfResult(fact_result) ==
  CheckedFact(fact_result.text, fact_result.truthfulness, fact_result.summary,
              [i \in 1..Len(fact_result.sources) |-> SourceOfDict(fact_result.sources[i])])

_convert_fact_results_to_checked_facts(fact_results) ==
  [i \in 1..Len(fact_results) |-> CheckedFactOfResult(fact_results[i])]

\* Variant: an empty analysis is returned as it is, without the mock facts.
analyze_facts_with_ai_no_fallback(content, enabled, analysis) ==
  IF enabled
  THEN IF analysis.raised
       THEN Return(Take(_get_mock_facts, 3))
       ELSE Return(_convert_fact_results_to_checked_facts(analysis.value))
  ELSE Return(_get_mock_facts)

\* api.analyze_facts_with_ai, given what the analysis did.
analyze_facts_with_ai(content, enabled, analysis) ==
  IF enabled
  THEN IF analysis.raised
       THEN Return(Take(_get_mock_facts, 3))
       ELSE LET checked_facts == _convert_fact_results_to_checked_facts(analysis.value)
            IN  IF checked_facts = <<>>
                THEN Return(Take(_get_mock_facts, 3))
                ELSE Return(checked_facts)
  ELSE Return(_get_mock_facts)

\* The stages are seams: the tests replace api.extract_content_from_url and
\* api.analyze_facts_with_ai by doubles that return a given value or raise.
StubFact ==
  CheckedFact("integration test", "SOMEWHAT TRUE", "Testing the integration",
              <<Source("https://test.com", "https://test.com/favicon.ico")>>)

StubFetch(url) == {Return([kind |-> "stub content", url |-> url]), Raise}

StubAnalyze(content) == {Return(<<>>), Return(<<StubFact>>), Raise}

\* ------------------------------------------------------------------- state
VARIABLES
  deployment,     \* "mock", "enabled" (FACT_CHECKING_ENABLED) or "patched" stages
  fact_checks,    \* the rows of table fact_checks
  requests,       \* the POST /factcheck requests received, in order of arrival, with
                  \* the handler's locals and the branch that answered
  running,        \* the request whose handler holds the event loop, 0 when free
  background,     \* the process_fact_checking tasks added to BackgroundTasks
  responses,      \* per url, the responses sent, in the order they were produced
  fetch_calls,    \* per url, the calls of extract_content_from_url
  analyze_calls,  \* per url, the calls of analyze_facts_with_ai
  store_call,     \* the last direct call of a store function, with what it returned
  _fact_checker,  \* the global AsyncFactChecker instance, None until it is created
  stage_call      \* the last direct call of a stage function or of add_fact

vars ==
  <<deployment, fact_checks, requests, running, background, responses,
    fetch_calls, analyze_calls, store_call, _fact_checker, stage_call>>

FACT_CHECKING_ENABLED == deployment = "enabled"

JSONResponse(content, status_code) == [content |-> content, status_code |-> status_code]

Started == JSONResponse([message |-> "Fact checking started"], 202)

InProgress == JSONResponse([message |-> "Fact checking in progress"], 202)

Complete(facts) == JSONResponse(facts, 200)

\* init_database on a new file, the application created, nothing received.
Init ==
  /\ deployment \in {"mock", "enabled", "patched"}
  /\ fact_checks = {}
  /\ requests = <<>>
  /\ running = 0
  /\ background = <<>>
  /\ responses = [url \in Keys |-> <<>>]
  /\ fetch_calls = [url \in Keys |-> 0]
  /\ analyze_calls = [url \in Keys |-> 0]
  /\ store_call = None
  /\ _fact_checker = None
  /\ stage_call = None

\* ------------------------------------------------------- POST /factcheck
\* A request with a valid body reaches the server.
post(url) ==
  /\ Len(requests) < MaxSubmits
  /\ running = 0
  /\ requests' = Append(requests,
       [url |-> url, pc |-> "accepted", checked_fact_json |-> None, processed |-> FALSE,
        answer |-> "none"])
  /\ UNCHANGED <<stage_call, _fact_checker, store_call, deployment, fact_checks, running, background, responses,
                 fetch_calls, analyze_calls>>

\* Variant: the handler awaits the store, so other coroutines run in between.
factcheck_suspends_at_store == TRUE

\* Whether the handler gives up the event loop between its status read and its
\* PENDING write: both store calls are plain synchronous calls, with no await.
factcheck_suspends == FALSE

\* The handler up to its status read.
factcheck_read(r) ==
  /\ r \in 1..Len(requests)
  /\ requests[r].pc = "accepted"
  /\ running = 0
  /\ LET status == get_fact_check_status(fact_checks, requests[r].url)
     IN  requests' = [requests EXCEPT ![r].pc = "read",
                                      ![r].checked_fact_json = status[1],
                                      ![r].processed = status[2]]
  /\ running' = IF factcheck_suspends THEN 0 ELSE r
  /\ UNCHANGED <<stage_call, _fact_checker, store_call, deployment, fact_checks, background, responses,
                 fetch_calls, analyze_calls>>

\* Variant: the "already processing" test is missing.
factcheck_branch_no_pending_test(checked_fact_json, processed) ==
  IF checked_fact_json # None THEN "complete" ELSE "start"

\* Variant: the processed flag is tested before the stored result.
factcheck_branch_processed_first(checked_fact_json, processed) ==
  IF processed THEN "in progress"
  ELSE IF checked_fact_json # None THEN "complete"
  ELSE "start"

\* Variant: the stored result is not tested, a url that is not processing is
\* started again.
factcheck_branch_no_result_test(checked_fact_json, processed) ==
  IF checked_fact_json = None /\ processed THEN "in progress" ELSE "start"

\* Variant: the decoded list is tested for truth, so [] counts as no result.
factcheck_branch_truthy(checked_fact_json, processed) ==
  IF checked_fact_json # None /\ json_loads(checked_fact_json) # <<>> THEN "complete"
  ELSE IF processed THEN "in progress"
  ELSE "start"

\* The branch the handler takes on what it read.
factcheck_branch(checked_fact_json, processed) ==
  IF checked_fact_json # None THEN "complete"
  ELSE IF processed THEN "in progress"
  ELSE "start"

Task(url) ==
  [url |-> url, pc |-> "scheduled", fetched |-> None, content |-> None,
   analyzed |-> None, facts |-> <<>>, raised |-> "no"]

\* The rest of the handler: the response, and for a new url the PENDING write
\* and the background task.
factcheck_respond(r) ==
  /\ r \in 1..Len(requests)
  /\ requests[r].pc = "read"
  /\ running \in {0, r}
  /\ LET url == requests[r].url
         branch == factcheck_branch(requests[r].checked_fact_json, requests[r].processed)
         response == CASE branch = "complete" ->
                            Complete(json_loads(requests[r].checked_fact_json))
                       [] branch = "in progress" -> InProgress
                       [] OTHER -> Started
     IN  /\ fact_checks' = IF branch = "start"
                           THEN set_processing_status(fact_checks, url, TRUE)
                           ELSE fact_checks
         /\ background' = IF branch = "start"
                          THEN Append(background, Task(url))
                          ELSE background
         /\ responses' = [responses EXCEPT ![url] = Append(@, response)]
  /\ requests' = [requests EXCEPT
       ![r].pc = "responded",
       ![r].checked_fact_json = None,
       ![r].processed = FALSE,
       ![r].answer = factcheck_branch(requests[r].checked_fact_json, requests[r].processed)]
  /\ running' = 0
  /\ UNCHANGED <<stage_call, _fact_checker, store_call, deployment, fetch_calls, analyze_calls>>

\* ------------------------------------------------- process_fact_checking
\* What the call of extract_content_from_url(url) at the task's first await does.
FetchOutcomes(url) ==
  IF deployment = "patched"
  THEN StubFetch(url)
  ELSE {extract_content_from_url(url, FACT_CHECKING_ENABLED, extractor) :
          extractor \in extract_content_from_url_async(url)}

\* What the call of analyze_facts_with_ai(content) at the second await does.
AnalyzeOutcomes(content) ==
  IF deployment = "patched"
  THEN StubAnalyze(content)
  ELSE {analyze_facts_with_ai(content, FACT_CHECKING_ENABLED, analysis) :
          analysis \in analyze_facts_with_ai_async(content)}

\* Variant: the except branch only logs the error.
process_fact_checking_except_logs(table, url) == table

\* Variant: the except branch falls back to mock facts, as the stages do.
process_fact_checking_except_mock(table, url) ==
  save_fact_check_results(table, url, Take(_get_mock_facts, 3))

\* The except branch: save empty results to mark the url as processed.
process_fact_checking_except(table, url) == save_fact_check_results(table, url, <<>>)

\* Variant: an exception of the fetch stage is swallowed and the run goes on.
process_fact_checking_after_fetch_swallowed(outcome) == "analyze"

\* Where the try block goes after the first await: on to the analyze stage with
\* the content, or to the except branch when the fetch stage raised.
process_fact_checking_after_fetch(outcome) ==
  IF outcome.raised THEN "except" ELSE "analyze"

\* The task starts after the response was sent and awaits the fetch stage.
task_start(t) ==
  /\ t \in 1..Len(background)
  /\ background[t].pc = "scheduled"
  /\ running = 0
  /\ background' = [background EXCEPT ![t].pc = "fetching",
                                      ![t].fetched = [url |-> background[t].url]]
  /\ fetch_calls' = [fetch_calls EXCEPT ![background[t].url] = @ + 1]
  /\ UNCHANGED <<stage_call, _fact_checker, store_call, deployment, fact_checks, requests, running, responses, analyze_calls>>

\* The fetch stage returns content: the task goes on to await the analyze stage.
fetch_returns(t) ==
  /\ t \in 1..Len(background)
  /\ background[t].pc = "fetching"
  /\ running = 0
  /\ \E outcome \in FetchOutcomes(background[t].url) :
       /\ process_fact_checking_after_fetch(outcome) = "analyze"
       /\ LET content == IF outcome.raised THEN None ELSE outcome.value
          IN  background' = [background EXCEPT ![t].pc = "analyzing",
                                               ![t].content = content,
                                               ![t].analyzed = content]
  /\ analyze_calls' = [analyze_calls EXCEPT ![background[t].url] = @ + 1]
  /\ UNCHANGED <<stage_call, _fact_checker, store_call, deployment, fact_checks, requests, running, responses, fetch_calls>>

\* The fetch stage raises: the except branch runs and the task returns.
fetch_raises(t) ==
  /\ t \in 1..Len(background)
  /\ background[t].pc = "fetching"
  /\ running = 0
  /\ \E outcome \in FetchOutcomes(background[t].url) :
       process_fact_checking_after_fetch(outcome) = "except"
  /\ fact_checks' = process_fact_checking_except(fact_checks, background[t].url)
  /\ background' = [background EXCEPT ![t].pc = "returned", ![t].raised = "fetch"]
  /\ UNCHANGED <<stage_call, _fact_checker, store_call, deployment, requests, running, responses, fetch_calls, analyze_calls>>

\* The analyze stage returns facts: they are saved and the task returns.
analyze_returns(t) ==
  /\ t \in 1..Len(background)
  /\ background[t].pc = "analyzing"
  /\ running = 0
  /\ \E outcome \in AnalyzeOutcomes(background[t].content) :
       /\ ~outcome.raised
       /\ fact_checks' = save_fact_check_results(fact_checks, background[t].url, outcome.value)
       /\ background' = [background EXCEPT ![t].pc = "returned",
                                           ![t].facts = outcome.value]
  /\ UNCHANGED <<stage_call, _fact_checker, store_call, deployment, requests, running, responses, fetch_calls, analyze_calls>>

\* The analyze stage raises: the except branch runs and the task returns.
analyze_raises(t) ==
  /\ t \in 1..Len(background)
  /\ background[t].pc = "analyzing"
  /\ running = 0
  /\ \E outcome \in AnalyzeOutcomes(background[t].content) : outcome.raised
  /\ fact_checks' = process_fact_checking_except(fact_checks, background[t].url)
  /\ background' = [background EXCEPT ![t].pc = "returned", ![t].raised = "analyze"]
  /\ UNCHANGED <<stage_call, _fact_checker, store_call, deployment, requests, running, responses, fetch_calls, analyze_calls>>

\* ------------------------------------------------------------ specification
Next ==
  \/ \E url \in Keys : post(url)
  \/ \E r \in 1..MaxSubmits : factcheck_read(r)
  \/ \E r \in 1..MaxSubmits : factcheck_respond(r)
  \/ \E t \in 1..MaxSubmits : task_start(t)
  \/ \E t \in 1..MaxSubmits : fetch_returns(t)
  \/ \E t \in 1..MaxSubmits : fetch_raises(t)
  \/ \E t \in 1..MaxSubmits : analyze_returns(t)
  \/ \E t \in 1..MaxSubmits : analyze_raises(t)

Spec == Init /\ [][Next]_vars

\* The handler runs to its response, and a task that can take a step takes it:
\* the event loop schedules every ready coroutine and each stage eventually
\* returns or raises.  Every task takes at most three steps, so fairness of
\* the tasks together gives every task its steps.
TaskStep(t) ==
  task_start(t) \/ fetch_returns(t) \/ fetch_raises(t) \/ analyze_returns(t) \/ analyze_raises(t)

Fairness ==
  /\ WF_vars(\E r \in 1..MaxSubmits : factcheck_respond(r))
  /\ WF_vars(\E t \in 1..MaxSubmits : TaskStep(t))

LiveSpec == Init /\ [][Next]_vars /\ Fairness

\* ------------------------------------------------- the store used directly
\* The store functions called one after the other on a fresh database, as the
\* database tests call them.
TestFact1 ==
  CheckedFact("test fact", "TRUE", "Test summary",
              <<Source("https://source.com", "https://source.com/favicon.ico"),
                Source("https://other.com", "")>>)

TestFact2 == CheckedFact("second fact", "FALSE", "Second summary", <<>>)

FactLists == {<<>>, <<TestFact1>>, <<TestFact1, TestFact2>>, <<TestFact2, TestFact1>>}

call_get_fact_check_status(url) ==
  /\ store_call' = [op |-> "get_fact_check_status", url |-> url,
                    before |-> fact_checks,
                    outcome |-> Return(get_fact_check_status(fact_checks, url))]
  /\ UNCHANGED <<stage_call, _fact_checker, fact_checks, deployment, requests, running, background, responses,
                 fetch_calls, analyze_calls>>

call_set_processing_status(url, processing) ==
  /\ fact_checks' = set_processing_status(fact_checks, url, processing)
  /\ store_call' = [op |-> "set_processing_status", url |-> url,
                    processing |-> processing, before |-> fact_checks,
                    outcome |-> Return(None)]
  /\ UNCHANGED <<stage_call, _fact_checker, deployment, requests, running, background, responses,
                 fetch_calls, analyze_calls>>

call_save_fact_check_results(url, facts) ==
  /\ fact_checks' = save_fact_check_results(fact_checks, url, facts)
  /\ store_call' = [op |-> "save_fact_check_results", url |-> url,
                    facts |-> facts, before |-> fact_checks,
                    outcome |-> save_fact_check_results_returns(fact_checks, url, facts)]
  /\ UNCHANGED <<stage_call, _fact_checker, deployment, requests, running, background, responses,
                 fetch_calls, analyze_calls>>

StoreNext ==
  \/ \E url \in Keys : call_get_fact_check_status(url)
  \/ \E url \in Keys : \E processing \in BOOLEAN : call_set_processing_status(url, processing)
  \/ \E url \in Keys : \E facts \in FactLists : call_save_fact_check_results(url, facts)

StoreSpec == Init /\ [][StoreNext]_vars

\* ------------------------------------------------------- process restart
\* Variant: the table is dropped and created again at startup.
init_database_recreate(table) == {}

\* CREATE TABLE IF NOT EXISTS fact_checks: the rows of an existing table stay.
init_database(table) == table

\* The process stops and is started again on the same database file: handlers
\* and background tasks that had not finished are gone with the process, and
\* the startup event runs init_database.  A lost task keeps the number of
\* requests the process had received when it stopped.
restart ==
  /\ fact_checks' = init_database(fact_checks)
  /\ requests' = [r \in 1..Len(requests) |->
                    IF requests[r].pc = "responded"
                    THEN requests[r]
                    ELSE [requests[r] EXCEPT !.pc = "dropped",
                                             !.checked_fact_json = None,
                                             !.processed = FALSE]]
  /\ background' = [t \in 1..Len(background) |->
                      IF background[t].pc = "returned"
                      THEN background[t]
                      ELSE [url |-> background[t].url, pc |-> "lost",
                            fetched |-> None, content |-> None, analyzed |-> None,
                            facts |-> <<>>, raised |-> "no",
                            received |-> Len(requests)]]
  /\ running' = 0
  /\ UNCHANGED <<stage_call, _fact_checker, store_call, deployment, responses, fetch_calls, analyze_calls>>

RestartNext ==
  \/ \E url \in Keys : post(url)
  \/ \E r \in 1..MaxSubmits : factcheck_read(r)
  \/ \E r \in 1..MaxSubmits : factcheck_respond(r)
  \/ \E t \in 1..MaxSubmits : task_start(t)
  \/ \E t \in 1..MaxSubmits : fetch_returns(t)
  \/ \E t \in 1..MaxSubmits : fetch_raises(t)
  \/ \E t \in 1..MaxSubmits : analyze_returns(t)
  \/ \E t \in 1..MaxSubmits : analyze_raises(t)
  \/ restart

RestartSpec == Init /\ [][RestartNext]_vars

\* ------------------------------------------------------ request validation
\* JSON bodies a client can post: the fields present, and the JSON type and
\* value of "url".
Body(fields, url_type, url) == [fields |-> fields, url_type |-> url_type, url |-> url]

Bodies ==
  {Body({"url"}, "string", url) : url \in Keys}
    \cup {Body({}, "absent", ""), Body({"invalid"}, "absent", ""), Body({"url"}, "null", "")}

\* Variant: the body is not validated.
FactCheckRequest_unvalidated(body) == Return([url |-> body.url])

\* class FactCheckRequest(BaseModel): url: str.  FastAPI builds the model from
\* the body before it calls the handler; a body without a string "url" raises
\* the validation error that FastAPI answers with 422.
FactCheckRequest(body) ==
  IF "url" \in body.fields /\ body.url_type = "string"
  THEN Return([url |-> body.url])
  ELSE Raise

\* A request with any body reaches the server: the handler is entered with a
\* valid request only, otherwise the client gets 422.
receive(body) ==
  /\ Len(requests) < MaxSubmits
  /\ running = 0
  /\ LET request == FactCheckRequest(body)
     IN  requests' = Append(requests,
           IF request.raised
           THEN [url |-> "", pc |-> "rejected", checked_fact_json |-> None,
                 processed |-> FALSE, answer |-> "422", body |-> body]
           ELSE [url |-> request.value.url, pc |-> "accepted",
                 checked_fact_json |-> None, processed |-> FALSE,
                 answer |-> "none", body |-> body])
  /\ UNCHANGED <<stage_call, _fact_checker, store_call, deployment, fact_checks, running, background, responses,
                 fetch_calls, analyze_calls>>

BoundaryNext ==
  \/ \E body \in Bodies : receive(body)
  \/ \E r \in 1..MaxSubmits : factcheck_read(r)
  \/ \E r \in 1..MaxSubmits : factcheck_respond(r)
  \/ \E t \in 1..MaxSubmits : task_start(t)
  \/ \E t \in 1..MaxSubmits : fetch_returns(t)
  \/ \E t \in 1..MaxSubmits : fetch_raises(t)
  \/ \E t \in 1..MaxSubmits : analyze_returns(t)
  \/ \E t \in 1..MaxSubmits : analyze_raises(t)

BoundarySpec == Init /\ [][BoundaryNext]_vars

\* ------------------------------------------------ store failures in submit
\* Variant: the INSERT OR REPLACE is committed and the call raises afterwards.
set_processing_status_raises_committed(table, url, processing) ==
  (table \ RowsOf(table, url)) \cup {Row(url, None, IF processing THEN 1 ELSE 0)}

\* The table after a call of set_processing_status that raised sqlite3.Error
\* in connect, execute or commit: nothing was committed.
set_processing_status_raises(table, url, processing) == table

\* A handler that ended with an unhandled exception: the server answers 500.
Failed(request, call) ==
  [url |-> request.url, pc |-> "failed", checked_fact_json |-> None,
   processed |-> FALSE, answer |-> "500", raised |-> call]

\* get_fact_check_status raises in the handler (l.432).
factcheck_read_fails(r) ==
  /\ r \in 1..Len(requests)
  /\ requests[r].pc = "accepted"
  /\ running = 0
  /\ requests' = [requests EXCEPT ![r] = Failed(requests[r], "get_fact_check_status")]
  /\ UNCHANGED <<stage_call, _fact_checker, store_call, deployment, fact_checks, running, background, responses,
                 fetch_calls, analyze_calls>>

\* set_processing_status raises in the handler (l.446): add_task (l.447) is
\* not reached.
factcheck_write_fails(r) ==
  /\ r \in 1..Len(requests)
  /\ requests[r].pc = "read"
  /\ running \in {0, r}
  /\ factcheck_branch(requests[r].checked_fact_json, requests[r].processed) = "start"
  /\ fact_checks' = set_processing_status_raises(fact_checks, requests[r].url, TRUE)
  /\ requests' = [requests EXCEPT ![r] = Failed(requests[r], "set_processing_status")]
  /\ running' = 0
  /\ UNCHANGED <<stage_call, _fact_checker, store_call, deployment, background, responses, fetch_calls, analyze_calls>>

SubmitFaultNext ==
  \/ \E url \in Keys : post(url)
  \/ \E r \in 1..MaxSubmits : factcheck_read(r)
  \/ \E r \in 1..MaxSubmits : factcheck_read_fails(r)
  \/ \E r \in 1..MaxSubmits : factcheck_respond(r)
  \/ \E r \in 1..MaxSubmits : factcheck_write_fails(r)
  \/ \E t \in 1..MaxSubmits : task_start(t)
  \/ \E t \in 1..MaxSubmits : fetch_returns(t)
  \/ \E t \in 1..MaxSubmits : fetch_raises(t)
  \/ \E t \in 1..MaxSubmits : analyze_returns(t)
  \/ \E t \in 1..MaxSubmits : analyze_raises(t)

SubmitFaultSpec == Init /\ [][SubmitFaultNext]_vars

\* --------------------------------------------- store failures in the task
\* The table after a call of save_fact_check_results that raised sqlite3.Error
\* in connect, execute or commit: nothing was committed.
save_fact_check_results_raises(table, url, facts) == table

\* The analyze stage returned facts and save_fact_check_results(url, facts)
\* raises (l.394): sqlite3.Error is an Exception, so the except branch is
\* entered.
save_fails_in_try(t) ==
  /\ t \in 1..Len(background)
  /\ background[t].pc = "analyzing"
  /\ running = 0
  /\ \E outcome \in AnalyzeOutcomes(background[t].content) :
       /\ ~outcome.raised
       /\ fact_checks' = save_fact_check_results_raises(fact_checks, background[t].url,
                                                        outcome.value)
       /\ background' = [background EXCEPT ![t].pc = "except",
                                           ![t].facts = outcome.value,
                                           ![t].raised = "save"]
  /\ UNCHANGED <<stage_call, _fact_checker, store_call, deployment, requests, running, responses, fetch_calls, analyze_calls>>

\* The except branch entered after the failed save: save_fact_check_results(url, [])
\* (l.399) succeeds and the task returns.
except_saves(t) ==
  /\ t \in 1..Len(background)
  /\ background[t].pc = "except"
  /\ running = 0
  /\ fact_checks' = process_fact_checking_except(fact_checks, background[t].url)
  /\ background' = [background EXCEPT ![t].pc = "returned"]
  /\ UNCHANGED <<stage_call, _fact_checker, store_call, deployment, requests, running, responses, fetch_calls, analyze_calls>>

\* save_fact_check_results(url, []) raises inside the except branch, entered
\* after a failed save or a failed stage: the exception leaves the task.
save_fails_in_except(t) ==
  /\ t \in 1..Len(background)
  /\ running = 0
  /\ \/ background[t].pc = "except"
     \/ /\ background[t].pc = "fetching"
        /\ \E outcome \in FetchOutcomes(background[t].url) :
             process_fact_checking_after_fetch(outcome) = "except"
     \/ /\ background[t].pc = "analyzing"
        /\ \E outcome \in AnalyzeOutcomes(background[t].content) : outcome.raised
  /\ fact_checks' = save_fact_check_results_raises(fact_checks, background[t].url, <<>>)
  /\ background' = [background EXCEPT
       ![t].pc = "raised",
       ![t].raised = IF background[t].pc = "except" THEN "save twice"
                     ELSE IF background[t].pc = "fetching" THEN "fetch, save"
                     ELSE "analyze, save"]
  /\ UNCHANGED <<stage_call, _fact_checker, store_call, deployment, requests, running, responses, fetch_calls, analyze_calls>>

SaveFaultNext ==
  \/ \E url \in Keys : post(url)
  \/ \E r \in 1..MaxSubmits : factcheck_read(r)
  \/ \E r \in 1..MaxSubmits : factcheck_respond(r)
  \/ \E t \in 1..MaxSubmits : task_start(t)
  \/ \E t \in 1..MaxSubmits : fetch_returns(t)
  \/ \E t \in 1..MaxSubmits : fetch_raises(t)
  \/ \E t \in 1..MaxSubmits : analyze_returns(t)
  \/ \E t \in 1..MaxSubmits : analyze_raises(t)
  \/ \E t \in 1..MaxSubmits : save_fails_in_try(t)
  \/ \E t \in 1..MaxSubmits : except_saves(t)
  \/ \E t \in 1..MaxSubmits : save_fails_in_except(t)

SaveFaultSpec == Init /\ [][SaveFaultNext]_vars

\* ------------------------------------------- the analysis of the fact checker
\* The add_fact calls the agent makes while it works on the content of a url:
\* the claim, the verdict, the summary and the source URLs after the split at
\* commas.
AgentCalls(url) ==
  IF url = "https://a"
  THEN <<[fact_text |-> "first claim of a", truthfulness |-> "TRUE",
          summary |-> "confirmed", sources |-> <<"https://source.com/a">>],
         [fact_text |-> "second claim of a", truthfulness |-> "FALSE",
          summary |-> "debunked", sources |-> <<>>]>>
  ELSE <<[fact_text |-> "first claim of b", truthfulness |-> "SOMEWHAT TRUE",
          summary |-> "partly", sources |-> <<"https://source.com/b", "see text">>],
         [fact_text |-> "second claim of b", truthfulness |-> "TRUE",
          summary |-> "confirmed", sources |-> <<"https://other.org/b">>]>>

\* url.startswith("http")
StartsWithHttp(url) ==
  url \in {"https://source.com/a", "https://source.com/b", "https://other.org/b",
           "https://fourth.net/x"}

\* f"https://{urlparse(url).netloc}/favicon.ico"
FaviconOf(url) ==
  CASE url = "https://other.org/b" -> "https://other.org/favicon.ico"
    [] url = "https://fourth.net/x" -> "https://fourth.net/favicon.ico"
    [] OTHER -> "https://source.com/favicon.ico"

\* fact_text.strip(), without its outer quotes, escaped quotes unescaped.
clean_fact_text(fact_text) ==
  CASE fact_text = "\"quoted claim\"" -> "quoted claim"
    [] fact_text = " padded claim " -> "padded claim"
    [] OTHER -> fact_text

\* "https://www.google.com/search?q=" + clean_fact_text.replace(" ", "+")
DefaultSearchUrl(fact_text) ==
  CASE fact_text = "first claim of a" -> "https://www.google.com/search?q=first+claim+of+a"
    [] fact_text = "second claim of a" -> "https://www.google.com/search?q=second+claim+of+a"
    [] fact_text = "first claim of b" -> "https://www.google.com/search?q=first+claim+of+b"
    [] fact_text = "second claim of b" -> "https://www.google.com/search?q=second+claim+of+b"
    [] fact_text = "quoted claim" -> "https://www.google.com/search?q=quoted+claim"
    [] OTHER -> "https://www.google.com/search?q=padded+claim"

SelectSeq2(s, keep) ==
  LET RECURSIVE Sel(_)
      Sel(i) == IF i > Len(s) THEN <<>>
                ELSE IF s[i] \in keep THEN <<s[i]>> \o Sel(i + 1) ELSE Sel(i + 1)
  IN  Sel(1)

\* Variant: every verdict the agent passes is accepted.
valid_truthfulness_open == {"TRUE", "FALSE", "SOMEWHAT TRUE", "MOSTLY TRUE", "true", ""}

valid_truthfulness == {"TRUE", "FALSE", "SOMEWHAT TRUE"}

\* The URLs of the sources argument that start with http, in their order.
HttpUrls(sources) ==
  SelectSeq2(sources, {u \in {sources[i] : i \in 1..Len(sources)} : StartsWithHttp(u)})

\* Variant: the source URLs are not limited to three.
add_fact_sources_unlimited(fact_text, sources) ==
  LET source_urls == HttpUrls(sources)
  IN  IF source_urls = <<>>
      THEN <<[url |-> DefaultSearchUrl(fact_text),
              favicon |-> "https://www.google.com/favicon.ico"]>>
      ELSE [i \in 1..Len(source_urls) |->
              [url |-> source_urls[i], favicon |-> FaviconOf(source_urls[i])]]

\* source_objects of add_fact: the first three URLs that start with http, each
\* with the favicon of its host, or the default search source when there is
\* none.
add_fact_sources(fact_text, sources) ==
  LET source_urls == Take(HttpUrls(sources), 3)
  IN  IF source_urls = <<>>
      THEN <<[url |-> DefaultSearchUrl(fact_text),
              favicon |-> "https://www.google.com/favicon.ico"]>>
      ELSE [i \in 1..Len(source_urls) |->
              [url |-> source_urls[i], favicon |-> FaviconOf(source_urls[i])]]

\* The add_fact tool: collected_facts after the call.  sources is the argument
\* split at commas, each part stripped.
add_fact(collected_facts, fact_text, truthfulness, summary, sources) ==
  IF truthfulness \notin valid_truthfulness
  THEN collected_facts
  ELSE Append(collected_facts,
              FactCheckResult(clean_fact_text(fact_text), truthfulness, summary,
                              add_fact_sources(clean_fact_text(fact_text), sources)))

\* What add_fact returns to the agent: the error message for a verdict outside
\* the list, or "Successfully added fact #n to collection".
add_fact_returns(collected_facts, fact_text, truthfulness, summary, sources) ==
  IF truthfulness \notin valid_truthfulness
  THEN [error |-> TRUE, invalid |-> truthfulness]
  ELSE [error |-> FALSE, number |-> Len(collected_facts) + 1]

\* AsyncFactChecker(), as far as the analysis uses it.
AsyncFactChecker == [collected_facts |-> <<>>]

\* get_fact_checker: the global instance, created on first use.
get_fact_checker(instance) == IF instance = None THEN AsyncFactChecker ELSE instance

\* What self.collected_facts is for the analysis of a task: the list of the
\* one shared instance.
CollectedBy(task, instance) == instance.collected_facts

\* A task inside AsyncFactChecker.analyze_facts_with_ai: added is what its own
\* agent has passed to add_fact so far.
Analysis(task) ==
  [url |-> task.url, pc |-> "agent", fetched |-> task.fetched, content |-> task.content,
   analyzed |-> task.analyzed, facts |-> <<>>, raised |-> "no",
   added |-> <<>>, collected |-> <<>>]

\* analyze_facts_with_ai clears self.collected_facts (l.296) and hands the
\* agent to the thread pool (l.337-344).
analysis_starts(t) ==
  /\ t \in 1..Len(background)
  /\ background[t].pc = "analyzing"
  /\ running = 0
  /\ FACT_CHECKING_ENABLED
  /\ _fact_checker' = [get_fact_checker(_fact_checker) EXCEPT !.collected_facts = <<>>]
  /\ background' = [background EXCEPT ![t] = Analysis(background[t])]
  /\ UNCHANGED <<stage_call, store_call, deployment, fact_checks, requests, running, responses,
                 fetch_calls, analyze_calls>>

\* The agent of task t calls add_fact in its worker thread.
agent_add_fact(t) ==
  /\ t \in 1..Len(background)
  /\ background[t].pc = "agent"
  /\ Len(background[t].added) < Len(AgentCalls(background[t].url))
  /\ LET call == AgentCalls(background[t].url)[Len(background[t].added) + 1]
     IN  /\ _fact_checker' =
              [_fact_checker EXCEPT !.collected_facts =
                 add_fact(@, call.fact_text, call.truthfulness, call.summary, call.sources)]
         /\ background' =
              [background EXCEPT ![t].added =
                 add_fact(@, call.fact_text, call.truthfulness, call.summary, call.sources)]
  /\ UNCHANGED <<stage_call, store_call, deployment, fact_checks, requests, running, responses,
                 fetch_calls, analyze_calls>>

\* The agent of task t is done: analyze_facts_with_ai returns
\* self.collected_facts (l.353), api.analyze_facts_with_ai converts it, the
\* task saves the facts and returns.
agent_returns(t) ==
  /\ t \in 1..Len(background)
  /\ background[t].pc = "agent"
  /\ running = 0
  /\ LET collected == CollectedBy(background[t], _fact_checker)
         outcome == analyze_facts_with_ai(background[t].content, FACT_CHECKING_ENABLED,
                                          Return(collected))
     IN  /\ fact_checks' = save_fact_check_results(fact_checks, background[t].url,
                                                   outcome.value)
         /\ background' = [background EXCEPT ![t].pc = "returned",
                                             ![t].collected = collected,
                                             ![t].facts = outcome.value]
  /\ UNCHANGED <<stage_call, _fact_checker, store_call, deployment, requests, running, responses,
                 fetch_calls, analyze_calls>>

\* The service with FACT_CHECKING_ENABLED, the analysis taken step by step.
AnalysisInit == Init /\ deployment = "enabled"

AnalysisNext ==
  \/ \E url \in Keys : post(url)
  \/ \E r \in 1..MaxSubmits : factcheck_read(r)
  \/ \E r \in 1..MaxSubmits : factcheck_respond(r)
  \/ \E t \in 1..MaxSubmits : task_start(t)
  \/ \E t \in 1..MaxSubmits : fetch_returns(t)
  \/ \E t \in 1..MaxSubmits : analysis_starts(t)
  \/ \E t \in 1..MaxSubmits : agent_add_fact(t)
  \/ \E t \in 1..MaxSubmits : agent_returns(t)

AnalysisSpec == AnalysisInit /\ [][AnalysisNext]_vars

\* ------------------------------------------------ the stages used directly
\* The stage functions and the add_fact tool called one after the other, as
\* the stage tests call them, without FACT_CHECKING_ENABLED and with it.
AddFactCalls ==
  {[fact_text |-> "first claim of a", truthfulness |-> "TRUE",
    summary |-> "confirmed", sources |-> <<"https://source.com/a">>],
   [fact_text |-> "\"quoted claim\"", truthfulness |-> "FALSE",
    summary |-> "debunked", sources |-> <<>>],
   [fact_text |-> " padded claim ", truthfulness |-> "SOMEWHAT TRUE",
    summary |-> "partly", sources |-> <<"see text", "n/a">>],
   [fact_text |-> "second claim of b", truthfulness |-> "TRUE",
    summary |-> "confirmed",
    sources |-> <<"https://source.com/a", "see text", "https://source.com/b",
                  "https://other.org/b", "https://fourth.net/x">>],
   [fact_text |-> "first claim of b", truthfulness |-> "MOSTLY TRUE",
    summary |-> "partly", sources |-> <<"https://source.com/b">>],
   [fact_text |-> "second claim of a", truthfulness |-> "true",
    summary |-> "confirmed", sources |-> <<>>]}

\* The agent calls add_fact on the instance.
call_add_fact(call) ==
  /\ FACT_CHECKING_ENABLED
  /\ LET collected_facts == get_fact_checker(_fact_checker).collected_facts
     IN  /\ Len(collected_facts) < MaxFacts
         /\ _fact_checker' =
              [get_fact_checker(_fact_checker) EXCEPT !.collected_facts =
                 add_fact(collected_facts, call.fact_text, call.truthfulness,
                          call.summary, call.sources)]
         /\ stage_call' =
              [op |-> "add_fact", call |-> call, before |-> collected_facts,
               returned |-> add_fact_returns(collected_facts, call.fact_text,
                                             call.truthfulness, call.summary,
                                             call.sources)]
  /\ UNCHANGED <<store_call, deployment, fact_checks, requests, running, background,
                 responses, fetch_calls, analyze_calls>>

\* What tavily_client.extract(url) can give: an exception, or a dict whose
\* results are empty or start with a result that has a content (empty or not)
\* or has none.
TavilyResponses(url) ==
  {Raise,
   Return([results |-> <<>>]),
   Return([results |-> <<[has_content |-> TRUE, content |-> "article text"]>>]),
   Return([results |-> <<[has_content |-> TRUE, content |-> ""]>>]),
   Return([results |-> <<[has_content |-> FALSE, content |-> ""]>>])}

\* AsyncFactChecker.extract_content_from_url, given Tavily's response: the
\* content of the first result, str(response) when it has none, a "No content
\* extracted" text without results; an exception is raised again.
AsyncFactChecker_extract_content_from_url(url, response) ==
  IF response.raised
  THEN Raise
  ELSE IF response.value.results # <<>>
       THEN Return([kind |-> "extracted", url |-> url,
                    text |-> IF response.value.results[1].has_content
                             THEN response.value.results[1].content
                             ELSE "{'results': [{...}]}"])
       ELSE Return([kind |-> "extracted", url |-> url,
                    text |-> "No content extracted from url. Response: {'results': []}"])

\* len(content) == 0, for the contents the fetch stage returns: the two mock
\* texts are not empty.
IsEmptyString(content) == content.kind = "extracted" /\ content.text = ""

\* await extract_content_from_url(url), outside a task.
call_extract_content_from_url(url) ==
  /\ \E response \in TavilyResponses(url) :
       LET extractor == AsyncFactChecker_extract_content_from_url(url, response)
       IN  stage_call' =
             [op |-> "extract_content_from_url", url |-> url,
              extractor |-> IF FACT_CHECKING_ENABLED THEN extractor ELSE None,
              outcome |-> extract_content_from_url(url, FACT_CHECKING_ENABLED, extractor)]
  /\ UNCHANGED <<_fact_checker, store_call, deployment, fact_checks, requests, running,
                 background, responses, fetch_calls, analyze_calls>>

\* What fact_checker.analyze_facts_with_ai_async can do once the agent has
\* called add_fact: return the collected facts, return [] after an error of
\* the agent, or raise when the instance cannot be created.
AnalysisOutcomes(instance) ==
  {Return(get_fact_checker(instance).collected_facts), Return(<<>>), Raise}

\* await analyze_facts_with_ai(content), outside a task.
call_analyze_facts_with_ai(url) ==
  /\ \E analysis \in AnalysisOutcomes(_fact_checker) :
       LET content == [kind |-> "mock content", url |-> url]
       IN  stage_call' =
             [op |-> "analyze_facts_with_ai", content |-> content,
              analysis |-> IF FACT_CHECKING_ENABLED THEN analysis ELSE None,
              outcome |-> analyze_facts_with_ai(content, FACT_CHECKING_ENABLED, analysis)]
  /\ UNCHANGED <<_fact_checker, store_call, deployment, fact_checks, requests, running,
                 background, responses, fetch_calls, analyze_calls>>

\* The stages as api.py defines them, not replaced by test doubles.
StageInit == Init /\ deployment \in {"mock", "enabled"}

StageNext ==
  \/ \E call \in AddFactCalls : call_add_fact(call)
  \/ \E url \in Keys : call_extract_content_from_url(url)
  \/ \E url \in Keys : call_analyze_facts_with_ai(url)

StageSpec == StageInit /\ [][StageNext]_vars

\* ------------------------------------- the service with direct store calls
\* The service, with the stages replaced by doubles, while the store functions
\* and process_fact_checking are also called directly, as the tests do between
\* requests.  A direct call runs when no handler holds the event loop.
DirectInit == Init /\ deployment = "patched"

\* Requests received while the functions are also called directly.
MaxDirectSubmits == 1

\* Runs, dispatched or awaited directly, while the functions are called directly.
MaxDirectTasks == 2

\* Tasks that can still be added: one per request not yet received or answered.
OpenDispatches ==
  (MaxDirectSubmits - Len(requests))
    + Cardinality({r \in 1..Len(requests) : requests[r].pc # "responded"})

\* set_processing_status(url, processing), called outside a request.
direct_set_processing_status(url, processing) ==
  /\ running = 0
  /\ fact_checks' = set_processing_status(fact_checks, url, processing)
  /\ store_call' = [op |-> "set_processing_status", url |-> url,
                    processing |-> processing, before |-> RowsOf(fact_checks, url)]
  /\ UNCHANGED <<stage_call, _fact_checker, deployment, requests, running, background,
                 responses, fetch_calls, analyze_calls>>

\* save_fact_check_results(url, facts), called outside a run.
direct_save_fact_check_results(url, facts) ==
  /\ running = 0
  /\ fact_checks' = save_fact_check_results(fact_checks, url, facts)
  /\ store_call' = [op |-> "save_fact_check_results", url |-> url, facts |-> facts,
                    before |-> RowsOf(fact_checks, url)]
  /\ UNCHANGED <<stage_call, _fact_checker, deployment, requests, running, background,
                 responses, fetch_calls, analyze_calls>>

\* await process_fact_checking(url), not added by the handler.
call_process_fact_checking(url) ==
  /\ running = 0
  /\ Len(background) + OpenDispatches < MaxDirectTasks
  /\ background' = Append(background, Task(url))
  /\ UNCHANGED <<stage_call, _fact_checker, store_call, deployment, fact_checks, requests,
                 running, responses, fetch_calls, analyze_calls>>

DirectNext ==
  \/ \E url \in Keys : Len(requests) < MaxDirectSubmits /\ post(url)
  \/ \E r \in 1..MaxSubmits : factcheck_read(r)
  \/ \E r \in 1..MaxSubmits : factcheck_respond(r)
  \/ \E t \in 1..MaxSubmits : task_start(t)
  \/ \E t \in 1..MaxSubmits : fetch_returns(t)
  \/ \E t \in 1..MaxSubmits : fetch_raises(t)
  \/ \E t \in 1..MaxSubmits : analyze_returns(t)
  \/ \E t \in 1..MaxSubmits : analyze_raises(t)
  \/ \E url \in Keys : \E processing \in BOOLEAN :
       direct_set_processing_status(url, processing)
  \/ \E url \in Keys : \E facts \in {<<>>, <<TestFact1>>} :
       direct_save_fact_check_results(url, facts)
  \/ \E url \in Keys : call_process_fact_checking(url)

DirectSpec == DirectInit /\ [][DirectNext]_vars

\* ------------------------------------------------------------------ claims
IsStarted(response) ==
  response.status_code = 202 /\ response.content.message = "Fact checking started"

IsInProgress(response) ==
  response.status_code = 202 /\ response.content.message = "Fact checking in progress"

IsComplete(response) == response.status_code = 200

Last(s) == s[Len(s)]

TasksIn(tasks, url) == {t \in 1..Len(tasks) : tasks[t].url = url}

TasksOf(url) == TasksIn(background, url)

\* The task of url returned after the stage named by stage raised ("no": none).
ReturnedAfter(url, stage) ==
  \E t \in TasksOf(url) : background[t].pc = "returned" /\ background[t].raised = stage

EmptyResult == <<json_dumps(<<>>), TRUE>>

ActiveTasksOf(url) == {t \in TasksOf(url) : background[t].pc # "returned"}

AnsweredOf(url) ==
  {r \in 1..Len(requests) : requests[r].url = url /\ requests[r].pc = "responded"}

\* The handler of request r produces its response in this step.
Responds(r) ==
  /\ r \in 1..Len(requests)
  /\ requests[r].pc = "read"
  /\ requests'[r].pc = "responded"

\* The response request r gets in this step.
ResponseTo(r) == Last(responses'[requests[r].url])

\* The store call that led to this state.
StoreCalled(op) == store_call # None /\ store_call.op = op

HadRecord == RowsOf(store_call.before, store_call.url) # {}

\* C1: over any interleaving of submits and task steps, at most one
\* process_fact_checking task is ever dispatched per url, so each stage is
\* called at most once per url and no two tasks of a url are active together.
C1_AtMostOneRunPerKey ==
  \A url \in Keys :
    /\ Cardinality(TasksOf(url)) <= 1
    /\ Cardinality(ActiveTasksOf(url)) <= 1
    /\ fetch_calls[url] <= 1
    /\ analyze_calls[url] <= 1

\* C1 witness: three submits of one url were answered and its single task
\* called both stages and returned.
C1_Witness ==
  \E url \in Keys :
    /\ Len(responses[url]) >= 3
    /\ \E t \in TasksOf(url) : background[t].pc = "returned"
    /\ fetch_calls[url] = 1
    /\ analyze_calls[url] = 1

\* C2: whenever the handler answers a request whose url is PENDING in the store,
\* the answer is 202 "in progress", no task is added and the store is not
\* written.
C2_NoDuplicateDispatch ==
  [][\A r \in 1..MaxSubmits :
       (Responds(r) /\ IsPending(fact_checks, requests[r].url))
         => /\ Len(responses'[requests[r].url]) = Len(responses[requests[r].url]) + 1
            /\ IsInProgress(ResponseTo(r))
            /\ background' = background
            /\ fact_checks' = fact_checks]_vars

\* C2 witness: a url is PENDING with its task still running, and its second
\* submit was answered "in progress".
C2_Witness ==
  \E url \in Keys :
    /\ IsPending(fact_checks, url)
    /\ Len(responses[url]) >= 2
    /\ IsInProgress(responses[url][2])
    /\ Cardinality(ActiveTasksOf(url)) = 1

\* C3: submits in flight together for an ABSENT url: no handler is overtaken
\* between its status read and its PENDING write (what it read is still the
\* status in the store), at most one submit of a url is answered "started", one
\* task is dispatched per "started", and while the url is PENDING every other
\* answered submit was answered "in progress".
C3_ConcurrentSubmits ==
  /\ \A r \in 1..Len(requests) :
       requests[r].pc = "read"
         => /\ <<requests[r].checked_fact_json, requests[r].processed>>
                 = get_fact_check_status(fact_checks, requests[r].url)
            /\ \A q \in 1..Len(requests) : requests[q].pc = "read" => q = r
  /\ \A url \in Keys :
       LET started == {r \in AnsweredOf(url) : requests[r].answer = "start"}
       IN  /\ Cardinality(started) <= 1
           /\ Cardinality(TasksOf(url)) = Cardinality(started)
           /\ (IsPending(fact_checks, url) /\ AnsweredOf(url) # {})
                => /\ Cardinality(started) = 1
                   /\ \A r \in AnsweredOf(url) \ started :
                        requests[r].answer = "in progress"

\* C3 witness: two requests for one url were in flight together while the url
\* was ABSENT (the first to arrive was answered after the second): the second
\* was answered "started", the first "in progress".
C3_Witness ==
  /\ Len(requests) >= 2
  /\ requests[1].url = requests[2].url
  /\ requests[2].pc = "responded" /\ requests[2].answer = "start"
  /\ requests[1].pc = "responded" /\ requests[1].answer = "in progress"
  /\ Cardinality(TasksOf(requests[1].url)) = 1

\* C4: once a url is DONE, no step changes its stored result, calls a stage
\* for it or adds a task for it, and every submit of it is answered 200 with
\* the decoded stored result.
C4_IdempotentTerminality ==
  [][\A url \in Keys :
       IsDone(fact_checks, url)
         => /\ get_fact_check_status(fact_checks', url)
                 = get_fact_check_status(fact_checks, url)
            /\ fetch_calls'[url] = fetch_calls[url]
            /\ analyze_calls'[url] = analyze_calls[url]
            /\ TasksIn(background', url) = TasksIn(background, url)
            /\ \A r \in 1..MaxSubmits :
                 (Responds(r) /\ requests[r].url = url)
                   => /\ IsComplete(ResponseTo(r))
                      /\ ResponseTo(r).content
                           = json_loads(get_fact_check_status(fact_checks, url)[1])]_vars

\* C4 witness: a DONE url was submitted twice more and both answers are 200
\* with the stored result, each stage having been called once.
C4_Witness ==
  \E url \in Keys :
    /\ IsDone(fact_checks, url)
    /\ Len(responses[url]) = 3
    /\ IsComplete(responses[url][2])
    /\ IsComplete(responses[url][3])
    /\ responses[url][2].content = responses[url][3].content
    /\ responses[url][3].content = json_loads(get_fact_check_status(fact_checks, url)[1])
    /\ fetch_calls[url] = 1
    /\ analyze_calls[url] = 1

\* C5: under fairness of the handler and of the background tasks, with every
\* stage call returning or raising, a url that is PENDING is eventually DONE.
C5_EventuallyTerminal ==
  \A url \in Keys : IsPending(fact_checks, url) ~> IsDone(fact_checks, url)

\* C5 witness: a url made PENDING by a submit is DONE after a stage raised.
C5_Witness ==
  \E url \in Keys :
    /\ Len(responses[url]) >= 1
    /\ IsStarted(responses[url][1])
    /\ (ReturnedAfter(url, "fetch") \/ ReturnedAfter(url, "analyze"))
    /\ IsDone(fact_checks, url)

C7_FetchFailureGivesEmptyResult ==
  /\ [](\A url \in Keys :
          ReturnedAfter(url, "fetch")
            => get_fact_check_status(fact_checks, url) = EmptyResult)
  /\ [][\A r \in 1..MaxSubmits :
          (Responds(r) /\ ReturnedAfter(requests[r].url, "fetch"))
            => /\ IsComplete(ResponseTo(r))
               /\ ResponseTo(r).content = <<>>]_vars

\* C7 witness: the fetch stage raised, analyze was never called, and a later
\* submit was answered 200 with [].
C7_Witness ==
  \E url \in Keys :
    /\ ReturnedAfter(url, "fetch")
    /\ analyze_calls[url] = 0
    /\ Len(responses[url]) >= 2
    /\ IsComplete(Last(responses[url]))
    /\ Last(responses[url]).content = <<>>

\* C8: after the analyze stage raised, the stored result is the empty list, and
\* all the callers have seen for the url is "started", "in progress" or 200
\* with [].
C8_AnalyzeFailureGivesEmptyResult ==
  \A url \in Keys :
    ReturnedAfter(url, "analyze")
      => /\ get_fact_check_status(fact_checks, url) = EmptyResult
         /\ \A i \in 1..Len(responses[url]) :
              \/ IsStarted(responses[url][i])
              \/ IsInProgress(responses[url][i])
              \/ IsComplete(responses[url][i]) /\ responses[url][i].content = <<>>

\* C8 witness: the analyze stage raised after a fetch that returned, and a
\* submit was answered 200 with [].
C8_Witness ==
  \E url \in Keys :
    /\ ReturnedAfter(url, "analyze")
    /\ fetch_calls[url] = 1
    /\ analyze_calls[url] = 1
    /\ \E i \in 1..Len(responses[url]) :
         IsComplete(responses[url][i]) /\ responses[url][i].content = <<>>

\* C9: a submit of a url with no record is answered 202 "started", leaves the
\* record (NULL, processed) and adds exactly one scheduled task for the url.
C9_FirstSubmitStarts ==
  [][\A r \in 1..MaxSubmits :
       (Responds(r) /\ RowsOf(fact_checks, requests[r].url) = {})
         => /\ Len(responses'[requests[r].url]) = Len(responses[requests[r].url]) + 1
            /\ IsStarted(ResponseTo(r))
            /\ get_fact_check_status(fact_checks', requests[r].url) = <<None, TRUE>>
            /\ background' = Append(background, Task(requests[r].url))
            /\ TasksIn(background, requests[r].url) = {}]_vars

\* C9 witness: the only submit of a url was answered "started", the url is
\* PENDING and its one task is scheduled.
C9_Witness ==
  \E url \in Keys :
    /\ Len(responses[url]) = 1
    /\ IsStarted(responses[url][1])
    /\ IsPending(fact_checks, url)
    /\ Cardinality(TasksOf(url)) = 1
    /\ \A t \in TasksOf(url) : background[t].pc = "scheduled"

\* C10: the responses of a url, in order, are one "started", then "in progress"
\* responses, then only 200 responses, all with the same result.
C10_ResponseSequence ==
  \A url \in Keys :
    LET log == responses[url]
    IN  /\ log # <<>> => IsStarted(log[1])
        /\ \A i \in 2..Len(log) : IsInProgress(log[i]) \/ IsComplete(log[i])
        /\ \A i \in 1..Len(log) : \A j \in (i + 1)..Len(log) :
             IsComplete(log[i])
               => IsComplete(log[j]) /\ log[j].content = log[i].content

\* C10 witness: a url was answered "started", then "in progress", then 200.
C10_Witness ==
  \E url \in Keys :
    /\ Len(responses[url]) = 3
    /\ IsStarted(responses[url][1])
    /\ IsInProgress(responses[url][2])
    /\ IsComplete(responses[url][3])

\* The decoded list dicts holds the facts of the list facts, in order, each
\* with its text, truthfulness, summary and sources.
SameFacts(dicts, facts) ==
  /\ Len(dicts) = Len(facts)
  /\ \A i \in 1..Len(facts) :
       /\ dicts[i].text = facts[i].text
       /\ dicts[i].truthfulness = facts[i].truthfulness
       /\ dicts[i].summary = facts[i].summary
       /\ Len(dicts[i].sources) = Len(facts[i].sources)
       /\ \A j \in 1..Len(facts[i].sources) :
            /\ dicts[i].sources[j].url = facts[i].sources[j].url
            /\ dicts[i].sources[j].favicon = facts[i].sources[j].favicon

\* C11: when a task returned without a stage raising, fetch was called once
\* with the url, analyze once with the content fetch returned, the stored text
\* decodes to the list analyze returned, and every submit answered from then on
\* is answered 200 with that list.
C11_SuccessStoresAnalysis ==
  /\ [](\A url \in Keys : \A t \in TasksOf(url) :
          (background[t].pc = "returned" /\ background[t].raised = "no")
            => /\ fetch_calls[url] = 1
               /\ background[t].fetched = [url |-> url]
               /\ analyze_calls[url] = 1
               /\ background[t].analyzed = background[t].content
               /\ IsDone(fact_checks, url)
               /\ SameFacts(json_loads(get_fact_check_status(fact_checks, url)[1]),
                            background[t].facts))
  /\ [][\A r \in 1..MaxSubmits :
          (Responds(r) /\ ReturnedAfter(requests[r].url, "no"))
            => /\ IsComplete(ResponseTo(r))
               /\ \A t \in TasksOf(requests[r].url) :
                    SameFacts(ResponseTo(r).content, background[t].facts)]_vars

\* C11 witness: analyze returned two or more facts, they are stored, and a later
\* submit was answered 200 with them.
C11_Witness ==
  \E url \in Keys : \E t \in TasksOf(url) :
    /\ background[t].pc = "returned"
    /\ background[t].raised = "no"
    /\ Len(background[t].facts) >= 2
    /\ background[t].facts[1] # background[t].facts[2]
    /\ Len(responses[url]) >= 2
    /\ IsComplete(Last(responses[url]))
    /\ SameFacts(Last(responses[url]).content, background[t].facts)

\* C12: no step takes a record that holds a result back to a NULL result.
C12_DoneNeverRegresses ==
  [][\A url \in Keys :
       get_fact_check_status(fact_checks, url)[1] # None
         => get_fact_check_status(fact_checks', url)[1] # None]_vars

\* C12 witness: a url is DONE and was submitted again after that.
C12_Witness ==
  \E url \in Keys :
    /\ IsDone(fact_checks, url)
    /\ Len(responses[url]) >= 2
    /\ IsComplete(Last(responses[url]))
    /\ \A t \in TasksOf(url) : background[t].pc = "returned"

\* C13: every row is (NULL, processed) or (result, processed): no row holds a
\* result with the processed flag false, and no state shows a result without
\* the flag or the flag of a finished url without its result.
C13_PayloadIffDone ==
  \A row \in fact_checks :
    /\ row.processed = 1
    /\ row.checked_fact_json # None <=> IsDone(fact_checks, row.url)
    /\ row.checked_fact_json = None <=> IsPending(fact_checks, row.url)
    /\ \A t \in TasksOf(row.url) :
         background[t].pc = "returned" <=> row.checked_fact_json # None

\* C13 witness: the table holds a PENDING row and a DONE row.
C13_Witness ==
  /\ \E row \in fact_checks : row.checked_fact_json = None /\ row.processed = 1
  /\ \E row \in fact_checks : row.checked_fact_json # None /\ row.processed = 1

\* C14: the only changes of the record of a url are its creation as
\* (NULL, processed) and one write of a result by its task; a stored result is
\* never written again.
C14_WrittenOnce ==
  /\ [](\A url \in Keys :
          Cardinality({t \in TasksOf(url) : background[t].pc = "returned"}) <= 1)
  /\ [][\A url \in Keys :
          RowsOf(fact_checks', url) # RowsOf(fact_checks, url)
            => \/ /\ RowsOf(fact_checks, url) = {}
                  /\ RowsOf(fact_checks', url) = {Row(url, None, 1)}
               \/ /\ RowsOf(fact_checks, url) = {Row(url, None, 1)}
                  /\ Cardinality(RowsOf(fact_checks', url)) = 1
                  /\ \A row \in RowsOf(fact_checks', url) : row.checked_fact_json # None
                  /\ \E t \in TasksOf(url) :
                       /\ background[t].pc # "returned"
                       /\ background'[t].pc = "returned"]_vars

\* C14 witness: both urls went from creation to a stored result, each by the
\* one write of its task.
C14_Witness ==
  \A url \in Keys :
    /\ IsDone(fact_checks, url)
    /\ Cardinality({t \in TasksOf(url) : background[t].pc = "returned"}) = 1

\* C15: save_fact_check_results(url, L) on an existing record leaves a row
\* whose status decodes to L, same order and same text, truthfulness, summary
\* and sources of every item, and a get_fact_check_status(url) called next
\* returns that.
C15_RoundTrip ==
  /\ []((StoreCalled("save_fact_check_results") /\ HadRecord)
          => LET status == get_fact_check_status(fact_checks, store_call.url)
             IN  /\ status[1] # None
                 /\ SameFacts(json_loads(status[1]), store_call.facts))
  /\ [][(/\ StoreCalled("save_fact_check_results")
         /\ HadRecord
         /\ store_call'.op = "get_fact_check_status"
         /\ store_call'.url = store_call.url)
          => /\ ~store_call'.outcome.raised
             /\ store_call'.outcome.value[1] # None
             /\ SameFacts(json_loads(store_call'.outcome.value[1]), store_call.facts)]_vars

\* C15 witness: a get returns the two saved facts, the one without sources
\* first and the one with two sources second.
C15_Witness ==
  /\ StoreCalled("get_fact_check_status")
  /\ store_call.outcome.value[1] # None
  /\ SameFacts(json_loads(store_call.outcome.value[1]), <<TestFact2, TestFact1>>)
  /\ Len(json_loads(store_call.outcome.value[1])[2].sources) = 2

\* C16 as stated: get_fact_check_status returns (result, false) for a DONE
\* record, (None, true) for a PENDING one and (None, false) without a record.
C16_StatusAsStated ==
  StoreCalled("get_fact_check_status")
    => LET rows == RowsOf(store_call.before, store_call.url)
           value == store_call.outcome.value
       IN  /\ rows = {} => value = <<None, FALSE>>
           /\ \A row \in rows :
                /\ (row.checked_fact_json = None /\ row.processed = 1)
                     => value = <<None, TRUE>>
                /\ row.checked_fact_json # None
                     => value[1] = row.checked_fact_json /\ value[2] = FALSE

\* C16: get_fact_check_status returns (the stored JSON text, true) for a DONE
\* record, (None, true) for a PENDING one and (None, false) without a record:
\* its second component is the processed flag of the row.
C16_StatusOfRecord ==
  StoreCalled("get_fact_check_status")
    => LET rows == RowsOf(store_call.before, store_call.url)
           value == store_call.outcome.value
       IN  /\ ~store_call.outcome.raised
           /\ fact_checks = store_call.before
           /\ rows = {} => value = <<None, FALSE>>
           /\ \A row \in rows :
                /\ (row.checked_fact_json = None /\ row.processed = 1)
                     => value = <<None, TRUE>>
                /\ row.checked_fact_json # None
                     => value[1] = row.checked_fact_json /\ value[2] = TRUE

\* C16 witness: the status of a DONE record with a non-empty result was read.
C16_Witness ==
  /\ StoreCalled("get_fact_check_status")
  /\ store_call.outcome.value[1] # None
  /\ Len(json_loads(store_call.outcome.value[1])) > 0
  /\ store_call.outcome.value[2]

\* C17: set_processing_status(url, True) leaves exactly the row
\* (url, NULL, processed) whatever the record of url was, touches no other
\* row, and called a second time changes nothing.
C17_MarkPendingOverwrites ==
  /\ []((StoreCalled("set_processing_status") /\ store_call.processing)
          => /\ RowsOf(fact_checks, store_call.url) = {Row(store_call.url, None, 1)}
             /\ fact_checks \ RowsOf(fact_checks, store_call.url)
                  = store_call.before \ RowsOf(store_call.before, store_call.url)
             /\ get_fact_check_status(fact_checks, store_call.url) = <<None, TRUE>>)
  /\ [][(/\ StoreCalled("set_processing_status")
         /\ store_call.processing
         /\ store_call'.op = "set_processing_status"
         /\ store_call'.processing
         /\ store_call'.url = store_call.url)
          => fact_checks' = fact_checks]_vars

\* C17 witness: the call replaced a record that held a non-empty result.
C17_Witness ==
  /\ StoreCalled("set_processing_status")
  /\ store_call.processing
  /\ \E row \in RowsOf(store_call.before, store_call.url) :
       row.checked_fact_json # None /\ Len(json_loads(row.checked_fact_json)) > 0
  /\ RowsOf(fact_checks, store_call.url) = {Row(store_call.url, None, 1)}

\* C18 as stated: save_fact_check_results on a url without a record raises.
C18_MissingRecordSignalsFault ==
  (StoreCalled("save_fact_check_results") /\ ~HadRecord)
    => store_call.outcome.raised

\* C18 witness: save_fact_check_results with a non-empty list on a url without
\* a record returned, and the url still has no record.
C18_Witness ==
  /\ StoreCalled("save_fact_check_results")
  /\ ~HadRecord
  /\ store_call.facts # <<>>
  /\ ~store_call.outcome.raised
  /\ RowsOf(fact_checks, store_call.url) = {}

\* C19: the table never holds two rows of one url.
C19_OneRecordPerKey ==
  \A url \in Keys : Cardinality(RowsOf(fact_checks, url)) <= 1

\* C19 witness: both urls have their one row, the last call being a save over
\* a record that already held a result.
C19_Witness ==
  /\ \A url \in Keys : Cardinality(RowsOf(fact_checks, url)) = 1
  /\ StoreCalled("save_fact_check_results")
  /\ \E row \in RowsOf(store_call.before, store_call.url) : row.checked_fact_json # None
  /\ \E row \in RowsOf(fact_checks, store_call.url) :
       row.checked_fact_json = json_dumps([i \in 1..Len(store_call.facts) |->
                                             FactDict(store_call.facts[i])])

\* C20: no step, a restart that runs init_database included, removes the
\* record of a url, and a record that holds a result holds the same result
\* after every step.
C20_RecordsDurable ==
  [][\A url \in Keys :
       /\ RowsOf(fact_checks, url) # {} => RowsOf(fact_checks', url) # {}
       /\ \A row \in RowsOf(fact_checks, url) :
            row.checked_fact_json # None => RowsOf(fact_checks', url) = {row}]_vars

\* C20 witness: the process restarted while a later task was unfinished and an
\* earlier one had stored a non-empty result; both records are there, the
\* finished one with its result.
C20_Witness ==
  \E t1 \in 1..Len(background) : \E t2 \in 1..Len(background) :
    /\ t1 < t2
    /\ background[t1].pc = "returned"
    /\ background[t2].pc = "lost"
    /\ IsDone(fact_checks, background[t1].url)
    /\ Len(json_loads(get_fact_check_status(fact_checks, background[t1].url)[1])) > 0
    /\ IsPending(fact_checks, background[t2].url)
    /\ IsComplete(Last(responses[background[t1].url]))

\* C23: when the handler answers "started" the record of the url is
\* (NULL, processed) and the task it added has not run: it is scheduled, and
\* no stage has been called for the url.
C23_StartedBeforeRun ==
  [][\A r \in 1..MaxSubmits :
       (Responds(r) /\ IsStarted(ResponseTo(r)))
         => LET url == requests[r].url
            IN  /\ RowsOf(fact_checks', url) = {Row(url, None, 1)}
                /\ TasksIn(background', url) # {}
                /\ \A t \in TasksIn(background', url) : background'[t].pc = "scheduled"
                /\ fetch_calls'[url] = 0
                /\ analyze_calls'[url] = 0]_vars

\* C23 witness: a url was answered "started", its record is PENDING and its
\* task has not started.
C23_Witness ==
  \E url \in Keys :
    /\ responses[url] # <<>>
    /\ IsStarted(Last(responses[url]))
    /\ RowsOf(fact_checks, url) = {Row(url, None, 1)}
    /\ \E t \in TasksOf(url) : background[t].pc = "scheduled"
    /\ fetch_calls[url] = 0

\* C24: a submit of a url whose stored result is the empty list is answered
\* 200 with [], adds no task and writes nothing.
C24_EmptyListIsDone ==
  [][\A r \in 1..MaxSubmits :
       (Responds(r)
        /\ get_fact_check_status(fact_checks, requests[r].url)[1] = json_dumps(<<>>))
         => /\ IsComplete(ResponseTo(r))
            /\ ResponseTo(r).content = <<>>
            /\ background' = background
            /\ fact_checks' = fact_checks]_vars

\* C24 witness: a url whose analysis returned no fact was answered 200 with [].
C24_Witness ==
  \E url \in Keys :
    /\ get_fact_check_status(fact_checks, url)[1] = json_dumps(<<>>)
    /\ ReturnedAfter(url, "no")
    /\ Len(responses[url]) >= 2
    /\ IsComplete(Last(responses[url]))
    /\ Last(responses[url]).content = <<>>

\* C25: no step of the handler of a request whose url is PENDING or DONE
\* changes the table.
C25_RepeatLeavesStore ==
  [][\A r \in 1..MaxSubmits :
       (/\ r \in 1..Len(requests)
        /\ requests'[r].pc # requests[r].pc
        /\ \/ IsPending(fact_checks, requests[r].url)
           \/ IsDone(fact_checks, requests[r].url))
         => fact_checks' = fact_checks]_vars

\* C25 witness: the second submit of a DONE url was answered 200 while the
\* other url had its own PENDING record, and both records are as they were.
C25_Witness ==
  \E url \in Keys :
    /\ Len(responses[url]) = 2
    /\ IsComplete(responses[url][2])
    /\ IsDone(fact_checks, url)
    /\ \E other \in Keys \ {url} :
         /\ IsPending(fact_checks, other)
         /\ Len(responses[other]) = 1

\* C26: every task has the record of its url from the moment it is added, and
\* the save of a task finds the record (NULL, processed).
C26_SaveFindsRecord ==
  /\ [](\A t \in 1..Len(background) : RowsOf(fact_checks, background[t].url) # {})
  /\ [][\A t \in 1..Len(background) :
          (background[t].pc # "returned" /\ background'[t].pc = "returned")
            => /\ RowsOf(fact_checks, background[t].url)
                    = {Row(background[t].url, None, 1)}
               /\ IsDone(fact_checks', background[t].url)]_vars

\* C26 witness: the tasks of both urls saved their results.
C26_Witness ==
  /\ Len(background) = 2
  /\ \A t \in 1..Len(background) :
       /\ background[t].pc = "returned"
       /\ IsDone(fact_checks, background[t].url)
  /\ \E t \in 1..Len(background) : background[t].raised = "no" /\ background[t].facts # <<>>

\* C29: in a task the analyze stage is called only with the content the fetch
\* stage returned, a task whose fetch raised never calls it, and a result is
\* stored only when the task has returned.
C29_StageOrder ==
  \A url \in Keys :
    /\ analyze_calls[url] <= fetch_calls[url]
    /\ IsDone(fact_checks, url) => \E t \in TasksOf(url) : background[t].pc = "returned"
    /\ \A t \in TasksOf(url) :
         /\ background[t].pc = "scheduled" => fetch_calls[url] = 0
         /\ background[t].pc = "fetching" => analyze_calls[url] = 0
         /\ background[t].pc = "analyzing"
              => /\ background[t].content # None
                 /\ background[t].analyzed = background[t].content
         /\ analyze_calls[url] > 0
              => /\ background[t].content # None
                 /\ background[t].raised # "fetch"
         /\ background[t].raised = "fetch"
              => /\ analyze_calls[url] = 0
                 /\ background[t].analyzed = None
         /\ background[t].raised = "analyze" => analyze_calls[url] = 1

\* C29 witness: the fetch of one url raised and its analyze was never called,
\* while the other url went through fetch, analyze and save.
C29_Witness ==
  \E u1 \in Keys : \E u2 \in Keys :
    /\ ReturnedAfter(u1, "fetch")
    /\ analyze_calls[u1] = 0
    /\ ReturnedAfter(u2, "no")
    /\ fetch_calls[u2] = 1
    /\ analyze_calls[u2] = 1

\* A body without a string "url".
IsMalformed(body) == ~("url" \in body.fields) \/ body.url_type # "string"

\* C21: a request whose body has no string "url" is answered 422 and never
\* enters the handler; the step that receives it leaves the table, the tasks
\* and the responses of every url as they were, and every row and every task
\* belongs to a url of a valid request.
C21_MalformedRejected ==
  /\ [](/\ \A r \in 1..Len(requests) :
             IsMalformed(requests[r].body)
               => requests[r].pc = "rejected" /\ requests[r].answer = "422"
        /\ \A row \in fact_checks :
             \E r \in 1..Len(requests) :
               ~IsMalformed(requests[r].body) /\ requests[r].body.url = row.url
        /\ Len(background)
             <= Cardinality({r \in 1..Len(requests) : ~IsMalformed(requests[r].body)}))
  /\ [][(/\ Len(requests') = Len(requests) + 1
         /\ IsMalformed(requests'[Len(requests')].body))
          => /\ fact_checks' = fact_checks
             /\ background' = background
             /\ responses' = responses]_vars

\* C21 witness: a body without "url" and a body with a null "url" were rejected
\* around a valid submit; the table holds the row of the valid url only.
C21_Witness ==
  /\ Len(requests) = 3
  /\ requests[1].pc = "rejected" /\ requests[1].body.fields = {}
  /\ requests[2].answer = "start"
  /\ requests[3].pc = "rejected" /\ requests[3].body.url_type = "null"
  /\ fact_checks = {Row(requests[2].url, None, 1)}
  /\ Len(background) = 1

\* C22: a handler whose status read or PENDING write raises ends with 500;
\* that step changes no row, adds no task and logs no 200 or 202, and there
\* are never more tasks than "started" answers.
C22_StoreFailureFailsRequest ==
  /\ [](Len(background)
          = Cardinality({r \in 1..Len(requests) : requests[r].answer = "start"}))
  /\ [][\A r \in 1..MaxSubmits :
          (/\ r \in 1..Len(requests)
           /\ requests[r].pc # "failed"
           /\ requests'[r].pc = "failed")
            => /\ requests'[r].answer = "500"
               /\ fact_checks' = fact_checks
               /\ background' = background
               /\ responses' = responses]_vars

\* C22 witness: the PENDING write of the first submit of a url raised, the url
\* stayed without record and task, and the next submit of it was answered
\* "started".
C22_Witness ==
  /\ Len(requests) >= 2
  /\ requests[1].pc = "failed"
  /\ requests[1].raised = "set_processing_status"
  /\ requests[2].url = requests[1].url
  /\ requests[2].answer = "start"
  /\ Len(responses[requests[1].url]) = 1
  /\ IsStarted(responses[requests[1].url][1])
  /\ Cardinality(TasksOf(requests[1].url)) = 1

\* C28 as stated: after save_fact_check_results raised for the analyzed facts
\* of a task, the task writes the record of its url no more: the record stays
\* (NULL, processed) and is never given the empty list.
C28_NoWriteAfterSaveFailure ==
  \A t \in 1..Len(background) :
    (background[t].raised \in {"save", "save twice"} /\ background[t].facts # <<>>)
      => /\ background[t].pc # "returned"
         /\ IsPending(fact_checks, background[t].url)

\* C28 witness: the save of a non-empty analyzed list raised, the except branch
\* saved [] and the url is answered 200 with [].
C28_Witness ==
  \E t \in 1..Len(background) :
    /\ background[t].raised = "save"
    /\ background[t].facts # <<>>
    /\ background[t].pc = "returned"
    /\ get_fact_check_status(fact_checks, background[t].url) = EmptyResult
    /\ IsComplete(Last(responses[background[t].url]))
    /\ Last(responses[background[t].url]).content = <<>>

\* The task of url was lost in a restart before it saved.
LostTasksOf(url) == {t \in TasksOf(url) : background[t].pc = "lost"}

\* C27: a url whose task was lost with the process stays (NULL, processed):
\* no step changes its record, it has no other task, and every submit of it is
\* answered "in progress" without a new task.
C27_LostRunStaysPending ==
  /\ [](\A url \in Keys :
          LostTasksOf(url) # {}
            => /\ RowsOf(fact_checks, url) = {Row(url, None, 1)}
               /\ Cardinality(TasksOf(url)) = 1)
  /\ [][\A url \in Keys :
          LostTasksOf(url) # {}
            => /\ RowsOf(fact_checks', url) = RowsOf(fact_checks, url)
               /\ TasksIn(background', url) = TasksOf(url)
               /\ \A r \in 1..MaxSubmits :
                    (Responds(r) /\ requests[r].url = url)
                      => IsInProgress(ResponseTo(r))]_vars

\* C27 witness: a submit received after the restart that lost the task of its
\* url was answered "in progress", and the url is still PENDING.
C27_Witness ==
  \E url \in Keys : \E t \in LostTasksOf(url) : \E r \in 1..Len(requests) :
    /\ r > background[t].received
    /\ requests[r].url = url
    /\ requests[r].pc = "responded"
    /\ requests[r].answer = "in progress"
    /\ IsInProgress(Last(responses[url]))
    /\ IsPending(fact_checks, url)

\* C30 as stated: the list analyze_facts_with_ai returns to a task holds
\* exactly the facts the agent of that task added, in the order it added them.
C30_NoCrossRequestMixing ==
  \A t \in 1..Len(background) :
    background[t].pc = "returned" => background[t].collected = background[t].added

\* C30 witness: the analyses of two urls overlapped; the one that returned
\* added two facts of its own and was given a list without its first fact and
\* with a fact of the other url, and that list is what its url has stored.
C30_Witness ==
  \E t \in 1..Len(background) : \E other \in 1..Len(background) :
    /\ background[t].url # background[other].url
    /\ background[t].pc = "returned"
    /\ Len(background[t].added) = 2
    /\ \A i \in 1..Len(background[t].collected) :
         background[t].collected[i] # background[t].added[1]
    /\ \E i \in 1..Len(background[t].collected) :
         background[t].collected[i].text = AgentCalls(background[other].url)[1].fact_text
    /\ SameFacts(json_loads(get_fact_check_status(fact_checks, background[t].url)[1]),
                 background[t].collected)

\* The stage or tool call that led to this state.
StageCalled(op) == stage_call # None /\ stage_call.op = op

CollectedFacts == get_fact_checker(_fact_checker).collected_facts

\* C36: add_fact with a verdict other than TRUE, FALSE and SOMEWHAT TRUE
\* returns the error message and leaves collected_facts as it was, a call with
\* one of the three appends one fact with that verdict, and every fact of
\* collected_facts has one of the three.
C36_VerdictClosedSet ==
  /\ \A i \in 1..Len(CollectedFacts) :
       CollectedFacts[i].truthfulness \in {"TRUE", "FALSE", "SOMEWHAT TRUE"}
  /\ StageCalled("add_fact")
       => IF stage_call.call.truthfulness \in {"TRUE", "FALSE", "SOMEWHAT TRUE"}
          THEN /\ ~stage_call.returned.error
               /\ stage_call.returned.number = Len(stage_call.before) + 1
               /\ Len(CollectedFacts) = Len(stage_call.before) + 1
               /\ SubSeq(CollectedFacts, 1, Len(stage_call.before)) = stage_call.before
               /\ Last(CollectedFacts).truthfulness = stage_call.call.truthfulness
          ELSE /\ stage_call.returned.error
               /\ CollectedFacts = stage_call.before

\* C36 witness: add_fact was called with MOSTLY TRUE on a collection that held
\* a fact, returned the error and left the collection alone.
C36_Witness ==
  /\ StageCalled("add_fact")
  /\ stage_call.call.truthfulness = "MOSTLY TRUE"
  /\ stage_call.returned.error
  /\ Len(stage_call.before) = 1
  /\ CollectedFacts = stage_call.before

\* C37: every fact add_fact appends has 1 to 3 sources: the first three of the
\* URLs passed that start with http, in their order, or the one default search
\* source when none starts with http.
C37_SourcesOneToThree ==
  /\ \A i \in 1..Len(CollectedFacts) :
       Len(CollectedFacts[i].sources) \in 1..3
  /\ (StageCalled("add_fact") /\ ~stage_call.returned.error)
       => LET added == Last(CollectedFacts).sources
              urls == HttpUrls(stage_call.call.sources)
          IN  /\ Len(added) = IF Len(urls) = 0 THEN 1
                              ELSE IF Len(urls) > 3 THEN 3 ELSE Len(urls)
              /\ Len(urls) > 0
                   => \A j \in 1..Len(added) : added[j].url = urls[j]
              /\ Len(urls) = 0
                   => /\ added[1].favicon = "https://www.google.com/favicon.ico"
                      /\ added[1].url
                           = DefaultSearchUrl(clean_fact_text(stage_call.call.fact_text))

\* C37 witness: the collection holds a fact added with four http URLs, kept
\* with the first three, and a fact added without any, kept with the default
\* source.
C37_Witness ==
  /\ Len(CollectedFacts) = 2
  /\ Len(CollectedFacts[1].sources) = 3
  /\ CollectedFacts[1].sources[3].url = "https://other.org/b"
  /\ Len(CollectedFacts[2].sources) = 1
  /\ CollectedFacts[2].sources[1].url = "https://www.google.com/search?q=quoted+claim"
  /\ StageCalled("add_fact")
  /\ stage_call.call.sources = <<>>

\* C31: analyze_facts_with_ai returns, without and with FACT_CHECKING_ENABLED,
\* whether the analysis returned facts, returned none or raised, a list of at
\* least one CheckedFact, each with the verdict TRUE, FALSE or SOMEWHAT TRUE.
C31_AnalyzeNeverEmpty ==
  StageCalled("analyze_facts_with_ai")
    => /\ ~stage_call.outcome.raised
       /\ Len(stage_call.outcome.value) > 0
       /\ \A i \in 1..Len(stage_call.outcome.value) :
            /\ stage_call.outcome.value[i].cls = "CheckedFact"
            /\ stage_call.outcome.value[i].truthfulness \in {"TRUE", "FALSE", "SOMEWHAT TRUE"}
       /\ (FACT_CHECKING_ENABLED /\ ~stage_call.analysis.raised
           /\ stage_call.analysis.value # <<>>)
            => SameFacts(stage_call.analysis.value, stage_call.outcome.value)

\* C31 witness: with FACT_CHECKING_ENABLED the analysis returned no fact and
\* the stage returned the first three mock facts.
C31_Witness ==
  /\ StageCalled("analyze_facts_with_ai")
  /\ FACT_CHECKING_ENABLED
  /\ ~stage_call.analysis.raised
  /\ stage_call.analysis.value = <<>>
  /\ stage_call.outcome.value = Take(_get_mock_facts, 3)

\* C32 as stated: extract_content_from_url returns a non-empty string for
\* every url and raises nothing, whatever the extractor does.
C32_ExtractNeverEmpty ==
  StageCalled("extract_content_from_url")
    => /\ ~stage_call.outcome.raised
       /\ ~IsEmptyString(stage_call.outcome.value)

\* C32 witness: with FACT_CHECKING_ENABLED the extractor returned the empty
\* content of Tavily's first result and the stage returned it.
C32_Witness ==
  /\ StageCalled("extract_content_from_url")
  /\ FACT_CHECKING_ENABLED
  /\ ~stage_call.extractor.raised
  /\ ~stage_call.outcome.raised
  /\ stage_call.outcome.value = stage_call.extractor.value
  /\ stage_call.outcome.value.text = ""

\* A step that is a direct call of the store function op.
DirectCalled(op) ==
  /\ requests' = requests
  /\ background' = background
  /\ store_call' # None
  /\ store_call'.op = op

\* C33: set_processing_status(url, False) leaves a record that reads like no
\* record: whatever the rows of url were, get_fact_check_status(url) returns
\* (None, False) after the call, and a submit of url that finds that record is
\* answered "started", marks url as processing and adds one run for url.
C33_ResetReadsAbsent ==
  [][\A url \in Keys :
       /\ (/\ DirectCalled("set_processing_status")
           /\ store_call'.url = url
           /\ ~store_call'.processing)
            => get_fact_check_status(fact_checks', url) = <<None, FALSE>>
       /\ \A r \in 1..MaxSubmits :
            (/\ Responds(r)
             /\ requests[r].url = url
             /\ RowsOf(fact_checks, url) = {Row(url, None, 0)})
              => /\ IsStarted(ResponseTo(r))
                 /\ get_fact_check_status(fact_checks', url) = <<None, TRUE>>
                 /\ background' = Append(background, Task(url))]_vars

\* C33 witness: a url that held a result was reset with
\* set_processing_status(url, False); the submit that followed was answered
\* "started", the url is processing and its run is scheduled.
C33_Witness ==
  /\ StoreCalled("set_processing_status")
  /\ ~store_call.processing
  /\ \E row \in store_call.before :
       row.checked_fact_json # None /\ row.processed = 1
  /\ \E r \in 1..Len(requests) :
       /\ requests[r].url = store_call.url
       /\ requests[r].pc = "responded"
  /\ IsStarted(Last(responses[store_call.url]))
  /\ get_fact_check_status(fact_checks, store_call.url) = <<None, TRUE>>
  /\ \E t \in TasksOf(store_call.url) : background[t].pc = "scheduled"

\* The step is one of an operation on key k: its request is received or
\* handled, a run of it is added or advances, or a store function is called
\* directly with it.
ActsOn(k) ==
  \/ \E r \in 1..Len(requests') :
       /\ requests'[r].url = k
       /\ (r > Len(requests) \/ requests'[r] # requests[r])
  \/ \E t \in 1..Len(background') :
       /\ background'[t].url = k
       /\ (t > Len(background) \/ background'[t] # background[t])
  \/ /\ requests' = requests
     /\ background' = background
     /\ store_call' # None
     /\ store_call'.url = k

\* C34: keys are independent: every step is a step of a submit, of
\* set_processing_status, of save_fact_check_results or of a run of
\* process_fact_checking for one key k, and it leaves the rows, or the absence
\* of a row, of every other key as they were.
C34_KeysIndependent ==
  [][/\ \E k \in Keys : ActsOn(k)
     /\ \A k \in Keys :
          ActsOn(k) => \A other \in Keys \ {k} :
                         RowsOf(fact_checks', other) = RowsOf(fact_checks, other)]_vars

\* C34 witness: key k was marked, a run of it returned and its result was then
\* saved directly, while the other key, submitted meanwhile, is still
\* processing with its run scheduled.
C34_Witness ==
  \E k \in Keys : \E other \in Keys \ {k} :
    /\ StoreCalled("save_fact_check_results")
    /\ store_call.url = k
    /\ store_call.facts # <<>>
    /\ store_call.before # {}
    /\ IsDone(fact_checks, k)
    /\ \E t \in TasksOf(k) : background[t].pc = "returned"
    /\ \E r \in 1..Len(requests) :
         requests[r].url = other /\ requests[r].pc = "responded"
    /\ get_fact_check_status(fact_checks, other) = <<None, TRUE>>
    /\ \E t \in TasksOf(other) : background[t].pc = "scheduled"

\* C35: save_fact_check_results(url, facts) on a url without a row creates
\* no row and changes nothing, get_fact_check_status(url) still returns
\* (None, False); so a run of process_fact_checking for a url that was never
\* marked as processing returns with the table unchanged and the url absent.
C35_SaveCreatesNoRecord ==
  [][\A url \in Keys :
       RowsOf(fact_checks, url) = {} =>
         /\ (DirectCalled("save_fact_check_results") /\ store_call'.url = url)
              => /\ fact_checks' = fact_checks
                 /\ get_fact_check_status(fact_checks', url) = <<None, FALSE>>
         /\ \A t \in TasksOf(url) :
              (background[t].pc # "returned" /\ background'[t].pc = "returned")
                => /\ fact_checks' = fact_checks
                   /\ get_fact_check_status(fact_checks', url) = <<None, FALSE>>]_vars

\* C35 witness: a url never submitted nor marked has no row after a run of it
\* returned with facts and after a direct save of a non-empty list.
C35_Witness ==
  \E url \in Keys :
    /\ StoreCalled("save_fact_check_results")
    /\ store_call.url = url
    /\ store_call.facts # <<>>
    /\ store_call.before = {}
    /\ \E t \in TasksOf(url) :
         background[t].pc = "returned" /\ background[t].facts # <<>>
    /\ \A r \in 1..Len(requests) : requests[r].url # url
    /\ RowsOf(fact_checks, url) = {}
    /\ get_fact_check_status(fact_checks, url) = <<None, FALSE>>

====
